---------------------------- MODULE Spec2Model ----------------------------
(***************************************************************************)
(* Model of torso_control.py: the TorsoControl node.  The main thread runs *)
(* __init__ and spin(); the ~calibrate subscriber runs                     *)
(* calibrateJoystickPose on a callback thread; a shutdown request from     *)
(* outside the node runs the shutdown hook on a third thread.              *)
(*                                                                         *)
(* Numbers are fixed point.  Lengths, tilt components and velocities are   *)
(* in thousandths; angles are in units of pi/24 (7.5 degrees).             *)
(*                                                                         *)
(* Orientations are taken from one non-commutative family of rotations:    *)
(*   [a |-> n, f |-> 0] is a lean by n units about the horizontal axis     *)
(*                      u = (0.6, 0.8, 0);                                 *)
(*   [a |-> n, f |-> 1] is that lean composed with a half turn about the   *)
(*                      vertical axis (the operator facing backwards).     *)
(***************************************************************************)
EXTENDS Integers, Sequences, FiniteSets, TLC

VARIABLES
    param,                \* the ~parameters read in __init__
    pc,                   \* position of the main thread
    joystick_quaternion,  \* self.joystick_quaternion
    cmd_vel_msg,          \* self.cmd_vel_msg
    cmd_vel_pub,          \* TRUE once self.cmd_vel_pub exists
    calibration_sub,      \* TRUE once the ~calibrate subscriber is connected
    base_link_rotation,   \* getTransforms local
    base_link,            \* getTransforms result (None on error)
    joystick_frame,       \* orientation broadcast for the joystick frame this cycle
    lookup_failed,        \* a lookup of the current cycle raised tf.Exception
    cal,                  \* per thread: the running calibrateJoystickPose call
    writer,               \* thread that wrote joystick_quaternion last
    calls,                \* ~calibrate messages delivered so far
    is_shutdown,          \* rospy.is_shutdown()
    hook,                 \* state of the on_shutdown hook
    closed,               \* the node's topics are torn down
    last_cmd,             \* last command sent on /pepper_interface/cmd_vel
    last_src,             \* who sent it: "loop" or "hook"
    probe                 \* inputs and results of the velocity functions
                          \* when they are exercised on their own

vars == <<param, pc, joystick_quaternion, cmd_vel_msg, cmd_vel_pub,
          calibration_sub, base_link_rotation, base_link, joystick_frame,
          lookup_failed, cal, writer, calls, is_shutdown, hook, closed,
          last_cmd, last_src, probe>>

-----------------------------------------------------------------------------
(* Bounds of the model *)

\* ~calibrate messages delivered in one run of the node
MaxCalls == 1

\* samples one calibration may fetch without the clock advancing
MaxSamples == 1

-----------------------------------------------------------------------------
(* Arithmetic *)

Unit == 10 * 100

Abs(n) == IF n < 0 THEN -n ELSE n

Min(a, b) == IF a < b THEN a ELSE b

Max(a, b) == IF a > b THEN a ELSE b

\* math.copysign(m, s)
CopySign(m, s) == IF s < 0 THEN -Abs(m) ELSE Abs(m)

\* float division a / b, b # 0, rounded toward zero
Div(a, b) ==
    LET q == Abs(a) \div Abs(b)
    IN  IF (a < 0) = (b < 0) THEN q ELSE -q

\* half a turn, in angle units
Pi == 2 * 12

\* an angle brought into (-Pi, Pi]
Norm(a) ==
    LET r == a % (2 * Pi)
    IN  IF r > Pi THEN r - 2 * Pi ELSE r

\* 1000 * sin(k * pi/24), k in 0..12
SinTable == <<0, 131, 259, 383, 500, 609, 707, 793, 866, 924, 966, 991, 1000>>

Sin(a) ==
    LET n == Norm(a)
        m == Abs(n)
        q == IF m > Pi \div 2 THEN Pi - m ELSE m
    IN  IF n < 0 THEN -SinTable[q + 1] ELSE SinTable[q + 1]

Cos(a) == Sin(a + Pi \div 2)

\* math.atan2(y, x), to the nearest angle unit: the direction k whose unit
\* vector has the largest projection of (x, y)
Directions == [k \in (0 - Pi)..(Pi + 1) |-> [c |-> Cos(k), s |-> Sin(k)]]

Projection(x, y, k) == x * Directions[k].c + y * Directions[k].s

Atan2(y, x) ==
    IF x = 0 /\ y = 0 THEN 0
    ELSE CHOOSE k \in (1 - Pi)..Pi :
            /\ Projection(x, y, k) > 0
            /\ Projection(x, y, k) >= Projection(x, y, k - 1)
            /\ Projection(x, y, k) >= Projection(x, y, k + 1)

-----------------------------------------------------------------------------
(* Orientations (tf.transformations) *)

\* Python's None
None == [none |-> TRUE]

\* [0, 0, 0, 1]
Identity == [a |-> 0, f |-> 0]

Quat(a, f) == [a |-> Norm(a), f |-> f]

\* tf.transformations.quaternion_inverse
quaternion_inverse(q) == IF q.f = 0 THEN Quat(-q.a, 0) ELSE q

\* tf.transformations.quaternion_multiply(q1, q2)
quaternion_multiply(q1, q2) ==
    Quat(q1.a + (IF q1.f = 0 THEN q2.a ELSE -q2.a), (q1.f + q2.f) % 2)

\* tf.transformations.quaternion_slerp(q0, q1, 1.0/count) along the shorter
\* arc; both orientations face the same way (equal f), as they do while the
\* operator holds the calibration stance.
quaternion_slerp(q0, q1, count) ==
    CASE q0.f = q1.f ->
        IF count = 1 THEN q1
        ELSE Quat(q0.a + Div(Norm(q1.a - q0.a), count), q0.f)

\* tf.transformations.quaternion_matrix(q)[0,2] and [1,2]: the X and Y
\* components of the rotated Z axis, sin(a) * (u_y, -u_x)
quaternion_matrix(q) ==
    [x |-> Div(8 * Sin(q.a), 10), y |-> Div(-6 * Sin(q.a), 10)]

-----------------------------------------------------------------------------
(* Parameters and derived limits (__init__) *)

max_user_tilt_angle == Pi \div 8

x_max_length == Cos(Pi \div 2 - max_user_tilt_angle)

y_max_length == Cos(Pi \div 2 - max_user_tilt_angle)

max_rotation == Pi \div 4

\* rospy.get_param defaults
DefaultParam ==
    [deadband_x |-> 200, deadband_y |-> 200, deadband_angle |-> Pi \div 8,
     velocity_x_max |-> 200, velocity_y_max |-> 200,
     velocity_angular_max |-> (Pi \div 4) * Unit]

\* parameter sets the node is started with: the defaults, and one set per
\* deadband check that fails
Params ==
    { DefaultParam,
      [DefaultParam EXCEPT !.deadband_x = x_max_length],
      [DefaultParam EXCEPT !.deadband_y = y_max_length + 17],
      [DefaultParam EXCEPT !.deadband_angle = max_rotation] }

\* the three checks of __init__ that call rospy.signal_shutdown
DeadbandError(p) ==
    \/ x_max_length <= p.deadband_x
    \/ y_max_length <= p.deadband_y
    \/ max_rotation <= p.deadband_angle

-----------------------------------------------------------------------------
(* Velocity mapping *)

\* the block without its saturation step
DeadbandScaleUnsaturated(raw, deadband, max_length, velocity_max) ==
    IF Abs(raw) > deadband
    THEN LET shifted == raw - CopySign(deadband, raw)
             mapped == Div(shifted * Unit, max_length - deadband)
         IN  Div(velocity_max * mapped, Unit)
    ELSE 0

\* the block without its deadband test
DeadbandScaleUntested(raw, deadband, max_length, velocity_max) ==
    LET saturated == Max(Min(raw, max_length), -max_length)
        shifted == saturated - CopySign(deadband, saturated)
        mapped == Div(shifted * Unit, max_length - deadband)
    IN  Div(velocity_max * mapped, Unit)

\* the block without its shift by the deadband
DeadbandScaleUnshifted(raw, deadband, max_length, velocity_max) ==
    IF Abs(raw) > deadband
    THEN LET saturated == Max(Min(raw, max_length), -max_length)
             mapped == Div(saturated * Unit, max_length - deadband)
         IN  Div(velocity_max * mapped, Unit)
    ELSE 0

\* the block shifting by the deadband whatever the sign of the input
DeadbandScaleOneSided(raw, deadband, max_length, velocity_max) ==
    IF Abs(raw) > deadband
    THEN LET saturated == Max(Min(raw, max_length), -max_length)
             shifted == saturated - deadband
             mapped == Div(shifted * Unit, max_length - deadband)
         IN  Div(velocity_max * mapped, Unit)
    ELSE 0

\* The deadband / saturate / shift / normalise / scale block that
\* calculateLinearVelocity applies to X and to Y and calculateAngularVelocity
\* applies to the shoulder angle.
DeadbandScale(raw, deadband, max_length, velocity_max) ==
    IF Abs(raw) > deadband
    THEN LET saturated == Max(Min(raw, max_length), -max_length)
             shifted == saturated - CopySign(deadband, saturated)
             mapped == Div(shifted * Unit, max_length - deadband)
         IN  Div(velocity_max * mapped, Unit)
    ELSE 0

\* the division of that block raises ZeroDivisionError
DivisionRaises(raw, deadband, max_length) ==
    Abs(raw) > deadband /\ max_length = deadband

calculateLinearVelocity(p, base_link_quaternion) ==
    LET j_R_b == quaternion_matrix(base_link_quaternion)
    IN  [x |-> DeadbandScale(j_R_b.x, p.deadband_x, x_max_length,
                             p.velocity_x_max),
         y |-> DeadbandScale(j_R_b.y, p.deadband_y, y_max_length,
                             p.velocity_y_max)]

\* the shoulder angle with the arguments of atan2 exchanged
ShoulderThetaExchanged(l_shoulder_position, r_shoulder_position) ==
    LET l_shoulder_x == l_shoulder_position[1] - r_shoulder_position[1]
        l_shoulder_y == l_shoulder_position[2] - r_shoulder_position[2]
    IN  Atan2(l_shoulder_x, l_shoulder_y) - Pi \div 2

ShoulderTheta(l_shoulder_position, r_shoulder_position) ==
    LET l_shoulder_x == l_shoulder_position[1] - r_shoulder_position[1]
        l_shoulder_y == l_shoulder_position[2] - r_shoulder_position[2]
    IN  Atan2(l_shoulder_y, l_shoulder_x) - Pi \div 2

calculateAngularVelocity(p, l_shoulder_position, r_shoulder_position) ==
    DeadbandScale(ShoulderTheta(l_shoulder_position, r_shoulder_position),
                  p.deadband_angle, max_rotation, p.velocity_angular_max)

\* spin() would raise computing the velocities of these inputs
VelocityRaises(p, q, l, r) ==
    \/ DivisionRaises(quaternion_matrix(q).x, p.deadband_x, x_max_length)
    \/ DivisionRaises(quaternion_matrix(q).y, p.deadband_y, y_max_length)
    \/ DivisionRaises(ShoulderTheta(l, r), p.deadband_angle, max_rotation)

Zero == [x |-> 0, y |-> 0, z |-> 0]


-----------------------------------------------------------------------------
(* The pose source: what tfListener.lookupTransform may return *)

\* base_link_K orientations seen while the operator holds the calibration
\* stance (upright, or leaning 30 degrees)
CalOrientations == { Quat(0, 0), Quat(4, 0) }

\* base_link_K orientations seen by the control loop
Orientations == { Quat(0, 0), Quat(2, 0), Quat(4, 1) }

\* <<LShoulder_K, RShoulder_K>> positions in the joystick frame:
\* level, turned left 30 degrees, turned left 135 degrees
ShoulderPairs ==
    { << <<0, 1000, 0>>, <<0, 0, 0>> >>,
      << <<-500, 866, 0>>, <<0, 0, 0>> >>,
      << <<-707, -707, 0>>, <<0, 0, 0>> >> }

\* clock ticks that may pass during one lookup: the clock must advance once
\* MaxSamples samples were fetched within one tick
FetchTicks(count) == IF count < MaxSamples THEN {0, 1} ELSE {1}

\* ~calibration_time, in clock ticks
calibration_time == 1

-----------------------------------------------------------------------------
(* State *)

Threads == {"main", "cb"}

\* no calibrateJoystickPose call is running on the thread; result is what
\* the last call returned.  A running call records the orientation stored
\* when it was entered (before) and the samples it fetched, in fetch order.
NoCall(result) ==
    [at |-> "idle", count |-> 0, elapsed |-> 0, before |-> Identity,
     samples |-> <<>>, result |-> result]

\* nothing was sent on the topic yet
NoCmd == [none |-> TRUE]

\* the velocity functions are not exercised on their own
NoProbe == [kind |-> "none"]

Init ==
    /\ param \in Params
    /\ pc = "init"
    /\ joystick_quaternion = Identity
    /\ cmd_vel_msg = Zero
    /\ cmd_vel_pub = FALSE
    /\ calibration_sub = FALSE
    /\ base_link_rotation = Identity
    /\ base_link = None
    /\ joystick_frame = None
    /\ lookup_failed = FALSE
    /\ cal = [t \in Threads |-> NoCall("none")]
    /\ writer = "none"
    /\ calls = 0
    /\ is_shutdown = FALSE
    /\ hook = "idle"
    /\ closed = FALSE
    /\ last_cmd = NoCmd
    /\ last_src = "none"
    /\ probe = NoProbe

getTransformsVars == <<base_link_rotation, base_link, joystick_frame,
                       lookup_failed>>

shutdownVars == <<is_shutdown, hook, closed>>

topicVars == <<last_cmd, last_src>>

-----------------------------------------------------------------------------
(* Publishing and shutdown *)

\* self.cmd_vel_pub.publish(msg): nothing leaves a node whose topics are closed
Publish(msg, src) ==
    IF closed
    THEN UNCHANGED topicVars
    ELSE last_cmd' = msg /\ last_src' = src

\* signal_shutdown left out: a failure is logged and nothing else happens
SignalShutdownForgotten == UNCHANGED <<shutdownVars, cmd_vel_msg, topicVars>>

\* rospy.signal_shutdown called by the main thread after construction: the
\* on_shutdown hook (shutdown(), unless it ran or is running) sets the three
\* velocities to zero and publishes; the node is shut down on return.
SignalShutdown ==
    IF is_shutdown \/ hook # "idle"
    THEN /\ is_shutdown' = TRUE
         /\ UNCHANGED <<hook, closed, cmd_vel_msg, topicVars>>
    ELSE /\ cmd_vel_msg' = Zero
         /\ Publish(Zero, "hook")
         /\ hook' = "done"
         /\ is_shutdown' = TRUE
         /\ closed' = TRUE

\* A shutdown request from outside the node (rosnode kill, Ctrl-C) starts
\* the hook on another thread: lines 346-348 of shutdown().
ShutdownRequest ==
    /\ pc # "init"
    /\ hook = "idle"
    /\ ~is_shutdown
    /\ hook' = "running"
    /\ cmd_vel_msg' = Zero
    /\ UNCHANGED <<param, probe, pc, joystick_quaternion, cmd_vel_pub,
                   calibration_sub, getTransformsVars, cal, writer, calls,
                   is_shutdown, closed, topicVars>>

\* line 349 of shutdown(); when the hook returns the node is shut down
HookPublish ==
    /\ hook = "running"
    /\ Publish(cmd_vel_msg, "hook")
    /\ hook' = "done"
    /\ is_shutdown' = TRUE
    /\ UNCHANGED <<param, probe, pc, joystick_quaternion, cmd_vel_msg,
                   cmd_vel_pub, calibration_sub, getTransformsVars, cal,
                   writer, calls, closed>>

\* after the hooks rospy tears the node's topics down
Teardown ==
    /\ hook = "done"
    /\ ~closed
    /\ closed' = TRUE
    /\ UNCHANGED <<param, probe, pc, joystick_quaternion, cmd_vel_msg,
                   cmd_vel_pub, calibration_sub, getTransformsVars, cal,
                   writer, calls, is_shutdown, hook, topicVars>>

-----------------------------------------------------------------------------
(* __init__ *)

\* Lines 88-108.  A failed deadband check calls rospy.signal_shutdown while
\* cmd_vel_msg and cmd_vel_pub do not exist yet: the hook raises
\* AttributeError inside rospy and publishes nothing; __init__ goes on.
\* A subscriber created in a node that is shut down receives nothing.
Construct ==
    /\ pc = "init"
    /\ IF DeadbandError(param)
       THEN /\ hook' = "failed"
            /\ is_shutdown' = TRUE
            /\ closed' = TRUE
       ELSE UNCHANGED shutdownVars
    /\ cmd_vel_msg' = Zero
    /\ cmd_vel_pub' = TRUE
    /\ calibration_sub' = ~DeadbandError(param)
    /\ pc' = "prompt"
    /\ UNCHANGED <<param, probe, joystick_quaternion, getTransformsVars, cal,
                   writer, calls, topicVars>>


-----------------------------------------------------------------------------
(* calibrateJoystickPose, on thread t *)

\* lines 316-317: the call is entered; before remembers the stored
\* orientation the call found
CalEnter(t) ==
    cal' = [cal EXCEPT ![t] = [at |-> "first", count |-> 0, elapsed |-> 0,
                               before |-> joystick_quaternion,
                               samples |-> <<>>, result |-> "none"]]

\* the call returns ok.  spin() (lines 122-126) shuts the node down when its
\* own call returns False; rospy drops what a subscriber callback returns.
CalReturn(t, ok) ==
    /\ cal' = [cal EXCEPT ![t] = NoCall(IF ok THEN "ok" ELSE "failed")]
    /\ IF t = "main"
       THEN /\ pc' = "loop"
            /\ IF ok
               THEN UNCHANGED <<shutdownVars, cmd_vel_msg, topicVars>>
               ELSE SignalShutdown
       ELSE UNCHANGED <<pc, shutdownVars, cmd_vel_msg, topicVars>>

\* lines 121-122 of spin(): Enter is pressed, the initial calibration starts
StartInitial ==
    /\ pc = "prompt"
    /\ pc' = "calibrating"
    /\ CalEnter("main")
    /\ UNCHANGED <<param, probe, joystick_quaternion, cmd_vel_msg,
                   cmd_vel_pub, calibration_sub, getTransformsVars, writer,
                   calls, shutdownVars, topicVars>>

\* a ~calibrate message is delivered: the subscriber thread calls
\* calibrateJoystickPose (line 108)
Deliver ==
    /\ calibration_sub
    /\ ~closed
    /\ cal["cb"].at = "idle"
    /\ calls < MaxCalls
    /\ calls' = calls + 1
    /\ CalEnter("cb")
    /\ UNCHANGED <<param, probe, pc, joystick_quaternion, cmd_vel_msg,
                   cmd_vel_pub, calibration_sub, getTransformsVars, writer,
                   shutdownVars, topicVars>>

\* lines 321-323: the first sample is stored as it is
CalFirst(t) ==
    /\ cal[t].at = "first"
    /\ \E q \in CalOrientations, d \in FetchTicks(0) :
        /\ joystick_quaternion' = q
        /\ cal' = [cal EXCEPT ![t].at = "loop", ![t].count = 1,
                              ![t].elapsed = d, ![t].samples = <<q>>]
    /\ writer' = t
    /\ UNCHANGED <<param, probe, pc, cmd_vel_msg, cmd_vel_pub,
                   calibration_sub, getTransformsVars, calls, shutdownVars,
                   topicVars>>

\* lines 326-333: within the window, the next sample is averaged into the
\* stored orientation
CalNext(t) ==
    /\ cal[t].at = "loop"
    /\ cal[t].elapsed < calibration_time
    /\ \E new_quaternion \in CalOrientations, d \in FetchTicks(cal[t].count) :
        /\ joystick_quaternion' =
               quaternion_slerp(joystick_quaternion, new_quaternion,
                                cal[t].count + 1)
        /\ cal' = [cal EXCEPT ![t].count = @ + 1, ![t].elapsed = @ + d,
                              ![t].samples = Append(@, new_quaternion)]
    /\ writer' = t
    /\ UNCHANGED <<param, probe, pc, cmd_vel_msg, cmd_vel_pub,
                   calibration_sub, getTransformsVars, calls, shutdownVars,
                   topicVars>>

\* lines 335-337: a lookup (the first or a later one) raises tf.Exception
CalFail(t) ==
    /\ \/ cal[t].at = "first"
       \/ cal[t].at = "loop" /\ cal[t].elapsed < calibration_time
    /\ CalReturn(t, FALSE)
    /\ UNCHANGED <<param, probe, joystick_quaternion, cmd_vel_pub,
                   calibration_sub, getTransformsVars, writer, calls>>

\* the call returning only after the window was exceeded, never when the
\* elapsed time equals calibration_time
CalDoneLate(t) ==
    /\ cal[t].at = "loop"
    /\ cal[t].elapsed > calibration_time
    /\ CalReturn(t, TRUE)
    /\ UNCHANGED <<param, probe, joystick_quaternion, cmd_vel_pub,
                   calibration_sub, getTransformsVars, writer, calls>>

\* lines 326, 339-341: the window is over
CalDone(t) ==
    /\ cal[t].at = "loop"
    /\ cal[t].elapsed >= calibration_time
    /\ CalReturn(t, TRUE)
    /\ UNCHANGED <<param, probe, joystick_quaternion, cmd_vel_pub,
                   calibration_sub, getTransformsVars, writer, calls>>

-----------------------------------------------------------------------------
(* spin(): the control loop *)

\* line 126
LoopCheck ==
    /\ pc = "loop"
    /\ pc' = IF is_shutdown THEN "done" ELSE "lookup_base"
    /\ lookup_failed' = FALSE
    /\ UNCHANGED <<param, probe, joystick_quaternion, cmd_vel_msg,
                   cmd_vel_pub, calibration_sub, base_link_rotation,
                   base_link, joystick_frame, cal, writer, calls,
                   shutdownVars, topicVars>>

\* spin(), lines 130-136: the velocities of the cycle
CycleCommand(p, bl, l, r) ==
    IF bl = None
    THEN Zero
    ELSE [x |-> calculateLinearVelocity(p, bl).x,
          y |-> calculateLinearVelocity(p, bl).y,
          z |-> calculateAngularVelocity(p, l, r)]

\* getTransforms, lines 165-169 and 175: base_link_K is looked up and the
\* joystick frame is broadcast with the stored orientation
LookupBase ==
    /\ pc = "lookup_base"
    /\ \E q \in Orientations : base_link_rotation' = q
    /\ joystick_frame' = joystick_quaternion
    /\ pc' = "relativize"
    /\ UNCHANGED <<param, probe, joystick_quaternion, cmd_vel_msg,
                   cmd_vel_pub, calibration_sub, base_link, lookup_failed,
                   cal, writer, calls, shutdownVars, topicVars>>

\* getTransforms, lines 170-172, then spin(), lines 130-133
LookupBaseFail ==
    /\ pc = "lookup_base"
    /\ base_link' = None
    /\ lookup_failed' = TRUE
    /\ cmd_vel_msg' = CycleCommand(param, None, <<0, 0, 0>>, <<0, 0, 0>>)
    /\ pc' = "publish"
    /\ UNCHANGED <<param, probe, joystick_quaternion, cmd_vel_pub,
                   calibration_sub, base_link_rotation, joystick_frame, cal,
                   writer, calls, shutdownVars, topicVars>>

\* the two factors of line 183 exchanged
RelativeOrientationExchanged(reference, rotation) ==
    quaternion_multiply(rotation, quaternion_inverse(reference))

\* getTransforms, lines 182-183
RelativeOrientation(reference, rotation) ==
    quaternion_multiply(quaternion_inverse(reference), rotation)

Relativize ==
    /\ pc = "relativize"
    /\ base_link' = RelativeOrientation(joystick_quaternion, base_link_rotation)
    /\ pc' = "lookup_shoulders"
    /\ UNCHANGED <<param, probe, joystick_quaternion, cmd_vel_msg,
                   cmd_vel_pub, calibration_sub, base_link_rotation,
                   joystick_frame, lookup_failed, cal, writer, calls,
                   shutdownVars, topicVars>>

\* getTransforms, lines 186-192 and 197, then spin(), lines 134-136; a
\* division by zero in the velocity mapping ends the main thread
LookupShoulders ==
    /\ pc = "lookup_shoulders"
    /\ \E s \in ShoulderPairs :
        IF VelocityRaises(param, base_link, s[1], s[2])
        THEN pc' = "crashed" /\ UNCHANGED cmd_vel_msg
        ELSE /\ cmd_vel_msg' = CycleCommand(param, base_link, s[1], s[2])
             /\ pc' = "publish"
    /\ UNCHANGED <<param, probe, joystick_quaternion, cmd_vel_pub,
                   calibration_sub, getTransformsVars, cal, writer, calls,
                   shutdownVars, topicVars>>

\* the shoulder lookup fails and the velocities of the last cycle are kept
LookupShouldersFailStale ==
    /\ pc = "lookup_shoulders"
    /\ base_link' = None
    /\ lookup_failed' = TRUE
    /\ pc' = "publish"
    /\ UNCHANGED <<param, probe, joystick_quaternion, cmd_vel_msg,
                   cmd_vel_pub, calibration_sub, base_link_rotation,
                   joystick_frame, cal, writer, calls, shutdownVars,
                   topicVars>>

\* getTransforms, lines 193-195, then spin(), lines 130-133
LookupShouldersFail ==
    /\ pc = "lookup_shoulders"
    /\ base_link' = None
    /\ lookup_failed' = TRUE
    /\ cmd_vel_msg' = CycleCommand(param, None, <<0, 0, 0>>, <<0, 0, 0>>)
    /\ pc' = "publish"
    /\ UNCHANGED <<param, probe, joystick_quaternion, cmd_vel_pub,
                   calibration_sub, base_link_rotation, joystick_frame, cal,
                   writer, calls, shutdownVars, topicVars>>

\* spin(), lines 139-141; the locals of the cycle are dropped
PublishCommand ==
    /\ pc = "publish"
    /\ Publish(cmd_vel_msg, "loop")
    /\ pc' = "loop"
    /\ base_link_rotation' = Identity
    /\ base_link' = None
    /\ joystick_frame' = None
    /\ UNCHANGED <<param, probe, joystick_quaternion, cmd_vel_msg,
                   cmd_vel_pub, calibration_sub, lookup_failed, cal, writer,
                   calls, shutdownVars>>

-----------------------------------------------------------------------------

Next ==
    \/ Construct
    \/ StartInitial
    \/ Deliver
    \/ \E t \in Threads : CalFirst(t)
    \/ \E t \in Threads : CalNext(t)
    \/ \E t \in Threads : CalFail(t)
    \/ \E t \in Threads : CalDone(t)
    \/ LoopCheck
    \/ LookupBase
    \/ LookupBaseFail
    \/ Relativize
    \/ LookupShoulders
    \/ LookupShouldersFail
    \/ PublishCommand
    \/ ShutdownRequest
    \/ HookPublish
    \/ Teardown

Spec == Init /\ [][Next]_vars


-----------------------------------------------------------------------------
(* Properties *)

\* positions of the main thread inside a control cycle
CyclePcs == {"lookup_base", "relativize", "lookup_shoulders", "publish"}

\* some calibrateJoystickPose call is running
CalRunning == \E t \in Threads : cal[t].at # "idle"

\* this step hands cmd_vel_msg to the publisher of an open topic
LoopPublishes == pc = "publish" /\ pc' = "loop" /\ ~closed

HookPublishes == hook = "running" /\ hook' = "done" /\ ~closed

\* C1: in a control cycle in which a pose lookup of getTransforms failed,
\* the command the cycle publishes is all zero, the main thread has not
\* crashed, and after publishing it is back at the head of the loop.
C1_FailedCycleZero ==
    [][ /\ lookup_failed => pc \in {"publish", "loop"}
        /\ (lookup_failed /\ pc = "publish")
              => /\ cmd_vel_msg = Zero
                 /\ pc' \in {"publish", "loop"}
                 /\ LoopPublishes => last_cmd' = Zero /\ last_src' = "loop"
      ]_vars

\* a cycle with a failed lookup published zero on the open topic and the
\* loop is about to run its next cycle
C1_Witness ==
    /\ lookup_failed
    /\ pc = "loop"
    /\ ~is_shutdown
    /\ last_cmd = Zero
    /\ last_src = "loop"

\* C2: once the node has shut down and the main thread has left spin(), the
\* last command sent is the shutdown hook's and it is all zero.
C2_FinalCommandZero ==
    (pc = "done" /\ is_shutdown /\ closed)
        => (last_src = "hook" /\ last_cmd = Zero)

\* C3: a command published while a calibration call is running is all zero.
C3_ZeroWhileCalibrating ==
    [][ (CalRunning /\ (LoopPublishes \/ HookPublishes))
            => cmd_vel_msg = Zero ]_vars

\* C4: joystick_quaternion changes only in the step in which a calibration
\* call returns success.
C4_ReferenceChangesOnlyOnSuccess ==
    [][ joystick_quaternion' # joystick_quaternion
            => \E t \in Threads : /\ cal[t].at # "idle"
                                  /\ cal'[t].at = "idle"
                                  /\ cal'[t].result = "ok" ]_vars

\* C5: when a calibration call returns failure, joystick_quaternion is what
\* it was when the call was entered.
C5_FailureKeepsReference ==
    [][ \A t \in Threads :
            (cal[t].at # "idle" /\ cal'[t].at = "idle"
                 /\ cal'[t].result = "failed")
                => joystick_quaternion' = cal[t].before ]_vars

C7_StartupPrevented ==
    DeadbandError(param)
        => /\ cal["main"].at = "idle"
           /\ cal["main"].result = "none"
           /\ pc \notin CyclePcs

\* C8: after a calibration started by a ~calibrate message has returned
\* failure (which reaches nobody), the loop publishes only zero commands.
C8_DroppedFailureMeansZero ==
    [][ (cal["cb"].result = "failed" /\ ~is_shutdown /\ LoopPublishes)
            => cmd_vel_msg = Zero ]_vars

\* C9: a calibration call that averages a further sample into
\* joystick_quaternion is the one that wrote it last: the writes of two
\* calls never interleave.
C9_WritesNeverInterleave ==
    [][ \A t \in Threads :
            (cal[t].at = "loop" /\ cal'[t].count = cal[t].count + 1)
                => writer = t ]_vars

\* 0 <= deadband < saturation and maximum >= 0 on each axis
ValidParam(p) ==
    /\ 0 <= p.deadband_x /\ p.deadband_x < x_max_length
    /\ 0 <= p.deadband_y /\ p.deadband_y < y_max_length
    /\ 0 <= p.deadband_angle /\ p.deadband_angle < max_rotation
    /\ p.velocity_x_max >= 0
    /\ p.velocity_y_max >= 0
    /\ p.velocity_angular_max >= 0

WithinMaxima(p, cmd) ==
    /\ Abs(cmd.x) <= p.velocity_x_max
    /\ Abs(cmd.y) <= p.velocity_y_max
    /\ Abs(cmd.z) <= p.velocity_angular_max

\* tilt components in [-1, 1] and shoulder angles atan2 - pi/2 can give
TiltValues == (0 - Unit)..Unit

ThetaValues == (1 - Pi - Pi \div 2)..(Pi \div 2)

\* deadbands below the saturation bound sat, and velocity maxima
DeadbandValues(sat) == {0, sat \div 2, sat - 1}

MaximumValues == {0, 1, 200, 7 * Unit}

\* every raw input of every axis maps to a velocity within the maximum,
\* for each valid deadband and maximum above
ScaleWithinMaxima ==
    /\ \A raw \in TiltValues, d \in DeadbandValues(x_max_length),
          m \in MaximumValues :
          Abs(DeadbandScale(raw, d, x_max_length, m)) <= m
    /\ \A raw \in ThetaValues, d \in DeadbandValues(max_rotation),
          m \in MaximumValues :
          Abs(DeadbandScale(raw, d, max_rotation, m)) <= m

\* C10: under valid parameters the message about to be published and the
\* last command sent (by the loop or by the shutdown hook) are within the
\* three maxima, and so is the mapping of every tilt component and every
\* shoulder angle.
C10_CommandWithinMaxima ==
    ValidParam(param)
        => /\ WithinMaxima(param, cmd_vel_msg)
           /\ last_cmd # NoCmd => WithinMaxima(param, last_cmd)
           /\ ScaleWithinMaxima

\* the loop sent a command saturated on X and on the angle
C10_Witness ==
    /\ ValidParam(param)
    /\ last_src = "loop"
    /\ last_cmd # NoCmd
    /\ Abs(last_cmd.x) = param.velocity_x_max
    /\ Abs(last_cmd.z) = param.velocity_angular_max
    /\ last_cmd.x # 0


-----------------------------------------------------------------------------
(* The velocity functions on their own: every raw input of each axis, and
   shoulder positions all around the circle, under valid parameters *)

\* valid parameter sets: the defaults, and two sets with other deadbands
\* (none, and just below the saturation bound) and maxima
ScaleParams ==
    { DefaultParam,
      [deadband_x |-> 0, deadband_y |-> 300, deadband_angle |-> 0,
       velocity_x_max |-> 500, velocity_y_max |-> 0,
       velocity_angular_max |-> 3 * Unit],
      [deadband_x |-> x_max_length - 1, deadband_y |-> 100,
       deadband_angle |-> max_rotation - 1,
       velocity_x_max |-> 1, velocity_y_max |-> 7 * Unit,
       velocity_angular_max |-> (Pi \div 4) * Unit] }

Axes == {"x", "y", "angle"}

AxisDeadband(p, axis) ==
    CASE axis = "x" -> p.deadband_x
      [] axis = "y" -> p.deadband_y
      [] axis = "angle" -> p.deadband_angle

AxisSaturation(axis) ==
    CASE axis = "x" -> x_max_length
      [] axis = "y" -> y_max_length
      [] axis = "angle" -> max_rotation

AxisMaximum(p, axis) ==
    CASE axis = "x" -> p.velocity_x_max
      [] axis = "y" -> p.velocity_y_max
      [] axis = "angle" -> p.velocity_angular_max

\* the block of the axis, applied to the raw value of that axis
AxisScale(p, axis, raw) ==
    DeadbandScale(raw, AxisDeadband(p, axis), AxisSaturation(axis),
                  AxisMaximum(p, axis))

\* a raw value of one axis, before the block of the axis is applied to it
\* and to its negation
AxisProbes ==
    { [kind |-> "axis", axis |-> axis, raw |-> raw, applied |-> FALSE,
       out |-> 0, mirrored |-> FALSE, mirror |-> 0] :
        axis \in {"x", "y"}, raw \in TiltValues }
    \cup
    { [kind |-> "axis", axis |-> "angle", raw |-> raw, applied |-> FALSE,
       out |-> 0, mirrored |-> FALSE, mirror |-> 0] :
        raw \in ThetaValues }

\* the left shoulder, Unit away from the right one, after the shoulder line
\* was turned by phi away from the level position (left shoulder on +Y)
TurnedLeftShoulder(r, phi) ==
    <<r[1] + Cos(phi + Pi \div 2), r[2] + Sin(phi + Pi \div 2), r[3]>>

\* shoulder positions turned by every phi of the circle, and the pair
\* left = (1, 1, 0), right = (0, 0, 0)
ShoulderProbes ==
    { [kind |-> "shoulders", phi |-> phi, l |-> TurnedLeftShoulder(r, phi),
       r |-> r, applied |-> FALSE, out |-> 0] :
        phi \in (1 - Pi)..Pi, r \in { <<0, 0, 0>>, <<100, -200, 50>> } }
    \cup
    { [kind |-> "shoulders", phi |-> 0 - Pi \div 4, l |-> <<Unit, Unit, 0>>,
       r |-> <<0, 0, 0>>, applied |-> FALSE, out |-> 0] }

VelocityInit ==
    /\ param \in ScaleParams
    /\ probe \in AxisProbes \cup ShoulderProbes
    /\ pc = "init"
    /\ joystick_quaternion = Identity
    /\ cmd_vel_msg = Zero
    /\ cmd_vel_pub = FALSE
    /\ calibration_sub = FALSE
    /\ base_link_rotation = Identity
    /\ base_link = None
    /\ joystick_frame = None
    /\ lookup_failed = FALSE
    /\ cal = [t \in Threads |-> NoCall("none")]
    /\ writer = "none"
    /\ calls = 0
    /\ is_shutdown = FALSE
    /\ hook = "idle"
    /\ closed = FALSE
    /\ last_cmd = NoCmd
    /\ last_src = "none"

nodeVars == <<param, pc, joystick_quaternion, cmd_vel_msg, cmd_vel_pub,
              calibration_sub, base_link_rotation, base_link,
              joystick_frame, lookup_failed, cal, writer, calls,
              is_shutdown, hook, closed, last_cmd, last_src>>

\* the block of the axis is applied to the raw value
ApplyAxis ==
    /\ probe.kind = "axis"
    /\ ~probe.applied
    /\ probe' = [probe EXCEPT !.applied = TRUE,
                              !.out = AxisScale(param, probe.axis, probe.raw)]
    /\ UNCHANGED nodeVars

\* the block of the axis is applied to the negated raw value
ApplyMirror ==
    /\ probe.kind = "axis"
    /\ ~probe.mirrored
    /\ probe' = [probe EXCEPT !.mirrored = TRUE,
                              !.mirror = AxisScale(param, probe.axis,
                                                   0 - probe.raw)]
    /\ UNCHANGED nodeVars

\* calculateAngularVelocity is applied to the shoulder positions
ApplyAngular ==
    /\ probe.kind = "shoulders"
    /\ ~probe.applied
    /\ probe' = [probe EXCEPT !.applied = TRUE,
                              !.out = calculateAngularVelocity(param, probe.l,
                                                               probe.r)]
    /\ UNCHANGED nodeVars

VelocityNext ==
    \/ ApplyAxis
    \/ ApplyMirror
    \/ ApplyAngular

VelocitySpec == VelocityInit /\ [][VelocityNext]_vars

\* the block of an axis was applied to the raw value of the probe
AxisApplied == probe.kind = "axis" /\ probe.applied

\* C11: on each of the three axes, a raw value with |raw| <= deadband,
\* |raw| = deadband included, is mapped to velocity 0.
C11_DeadbandGivesZero ==
    (AxisApplied /\ Abs(probe.raw) <= AxisDeadband(param, probe.axis))
        => probe.out = 0

\* a raw value exactly at a positive deadband was mapped
C11_Witness ==
    /\ AxisApplied
    /\ AxisDeadband(param, probe.axis) > 0
    /\ Abs(probe.raw) = AxisDeadband(param, probe.axis)

C13_ScaleIsOdd ==
    (AxisApplied /\ probe.mirrored) => probe.mirror = 0 - probe.out

\* a raw value between deadband and saturation and its negation were
\* mapped to opposite non-zero velocities
C13_Witness ==
    /\ AxisApplied
    /\ probe.mirrored
    /\ Abs(probe.raw) < AxisSaturation(probe.axis)
    /\ probe.out > 0
    /\ probe.mirror < 0

\* The transform stated piecewise: 0 within the deadband, the maximum with
\* the sign of raw from saturation on, and linear in between.
ScaleOf(raw, deadband, saturation, maximum) ==
    CASE Abs(raw) <= deadband -> 0
      [] Abs(raw) > deadband /\ raw >= saturation -> maximum
      [] Abs(raw) > deadband /\ raw <= 0 - saturation -> 0 - maximum
      [] Abs(raw) > deadband /\ Abs(raw) < saturation ->
            LET toward == IF raw > 0 THEN raw - deadband ELSE raw + deadband
            IN  Div(maximum * Div(toward * Unit, saturation - deadband), Unit)

\* a shoulder pair was given to calculateAngularVelocity
AngularApplied == probe.kind = "shoulders" /\ probe.applied

\* C14: for every pair of shoulder positions calculateAngularVelocity
\* returns the transform (deadband_angle, max_rotation,
\* velocity_angular_max) of atan2(left.y - right.y, left.x - right.x) - pi/2;
\* left = (1, 1, 0), right = (0, 0, 0) under the default parameters
\* (deadband pi/8, maximum pi/4) gives -pi/4.
C14_AngularVelocityOfShoulders ==
    AngularApplied
        => /\ probe.out =
                ScaleOf(Atan2(probe.l[2] - probe.r[2], probe.l[1] - probe.r[1])
                            - Pi \div 2,
                        param.deadband_angle, max_rotation,
                        param.velocity_angular_max)
           /\ ( /\ param = DefaultParam
                /\ probe.l = <<Unit, Unit, 0>>
                /\ probe.r = <<0, 0, 0>> )
                  => probe.out = 0 - (Pi \div 4) * Unit

\* the pair left = (1, 1, 0), right = (0, 0, 0) was mapped under the
\* default parameters
C14_Witness ==
    /\ AngularApplied
    /\ param = DefaultParam
    /\ probe.l = <<Unit, Unit, 0>>
    /\ probe.r = <<0, 0, 0>>
    /\ probe.out < 0

\* C18: the sign of the angular velocity follows the turn over the whole
\* circle: a shoulder line turned by phi away from level gives a positive
\* velocity for deadband_angle < phi < pi (a left turn) and a negative one
\* for -pi < phi < -deadband_angle.
C18_SignFollowsTurn ==
    (AngularApplied /\ param.velocity_angular_max > 0)
        => /\ (param.deadband_angle < probe.phi /\ probe.phi < Pi)
                  => probe.out > 0
           /\ (0 - Pi < probe.phi /\ probe.phi < 0 - param.deadband_angle)
                  => probe.out < 0

RECURSIVE IncrementalAverage(_)
\* avg_n of the incremental formula: avg_1 = sample_1 and
\* avg_k = slerp(avg_(k-1), sample_k, 1/k)
IncrementalAverage(samples) ==
    IF Len(samples) = 1
    THEN samples[1]
    ELSE quaternion_slerp(
             IncrementalAverage(SubSeq(samples, 1, Len(samples) - 1)),
             samples[Len(samples)], Len(samples))

\* C15: when a calibrateJoystickPose call returns True, the stored
\* orientation is the incremental average of the samples that call fetched,
\* in fetch order, the k-th weighted by 1/k.
C15_StoredIsIncrementalAverage ==
    [][ \A t \in Threads :
            (cal[t].at = "loop" /\ cal'[t].at = "idle"
                 /\ cal'[t].result = "ok")
                => joystick_quaternion' = IncrementalAverage(cal[t].samples)
      ]_vars

\* the orientations of the model: every lean, with and without the half turn
Rotations == { Quat(a, f) : a \in (1 - Pi)..Pi, f \in {0, 1} }

\* the orientation that, composed after the reference, reproduces the sample
RelativeTo(reference, sample) ==
    CHOOSE x \in Rotations : quaternion_multiply(reference, x) = sample

\* over the whole group, lines 182-183 give that orientation, and the
\* identity (with zero tilt) when the sample is the reference
RelativizeOverRotations ==
    \A reference \in Rotations :
        /\ \A sample \in Rotations :
               RelativeOrientation(reference, sample)
                   = RelativeTo(reference, sample)
        /\ RelativeOrientation(reference, reference) = Identity
        /\ quaternion_matrix(RelativeOrientation(reference, reference))
               = [x |-> 0, y |-> 0]

\* C16: the orientation getTransforms hands to calculateLinearVelocity is
\* inverse(reference) composed with the sampled base_link orientation, in
\* that order, for the reference and the sample of every cycle and over
\* the whole group; a sample equal to the reference gives the identity
\* and a zero linear velocity.
C16_RelativizedInReferenceOrder ==
    [][ (pc = "relativize" /\ pc' = "lookup_shoulders")
            => /\ base_link' = RelativeTo(joystick_quaternion,
                                          base_link_rotation)
               /\ base_link_rotation = joystick_quaternion
                      => /\ base_link' = Identity
                         /\ calculateLinearVelocity(param, base_link')
                                = [x |-> 0, y |-> 0]
               /\ RelativizeOverRotations
      ]_vars

\* a leaning sample equal to the stored reference was relativized
C16_Witness ==
    /\ pc = "lookup_shoulders"
    /\ base_link = Identity
    /\ base_link_rotation # Identity
    /\ joystick_quaternion = base_link_rotation

\* C17: within one control cycle the reference orientation broadcast as
\* the joystick frame (line 175) is the one that relativizes base_link
\* (line 182), whatever a ~calibrate callback does meanwhile.
C17_SameReferenceInCycle ==
    [][ (pc = "relativize" /\ pc' = "lookup_shoulders")
            => joystick_frame = joystick_quaternion ]_vars

-----------------------------------------------------------------------------
(* Progress of calibrateJoystickPose *)

\* a step of the calibrateJoystickPose call running on thread t
CalStep(t) == CalFirst(t) \/ CalNext(t) \/ CalFail(t) \/ CalDone(t)

\* A thread inside calibrateJoystickPose keeps running: each lookup returns
\* or raises within its timeout of one second (lines 321, 328) and the
\* loop test is evaluated again.
LiveSpec == Spec /\ \A t \in Threads : WF_vars(CalStep(t))

\* C19: every calibrateJoystickPose call returns, True or False; it
\* returns True only once the elapsed time has reached calibration_time,
\* with at least one sample used.
C19_CalibrationTerminates ==
    /\ \A t \in Threads :
           (cal[t].at # "idle")
               ~> (cal[t].at = "idle" /\ cal[t].result \in {"ok", "failed"})
    /\ [][ \A t \in Threads :
               (cal[t].at # "idle" /\ cal'[t].at = "idle"
                    /\ cal'[t].result = "ok")
                   => /\ cal[t].elapsed >= calibration_time
                      /\ cal[t].count >= 1 ]_vars

\* both calls have returned, the one of the callback True and the one of
\* spin() False
C19_Witness ==
    /\ cal["cb"].at = "idle"
    /\ cal["cb"].result = "ok"
    /\ cal["main"].at = "idle"
    /\ cal["main"].result = "failed"

=============================================================================
